---- MODULE Spec2Model ----
(***************************************************************************)
(* BatteryOptimizer (src/da_optimiser.py): a two-stage battery trading     *)
(* optimiser.  optimize_day_ahead builds and solves the day-ahead LP,      *)
(* optimize_intra_day builds and solves the intra-day LP with the stored   *)
(* day-ahead flows as constants, get_results merges both into a ledger,    *)
(* main() drives one run from the sidebar inputs.                          *)
(*                                                                         *)
(* Units.  Flows, power, capacity and initial_soc are whole energy units.  *)
(* An efficiency is a numerator over EffDen, so every state of charge is   *)
(* kept multiplied by EffDen (soc_da_sol[t] = EffDen * SoC).  Prices are   *)
(* in tenths of a currency unit.  A sequence index i stands for the        *)
(* settlement period t = i - 1.                                            *)
(*                                                                         *)
(* The LP engine (appsi_highs) is outside the repository.  It is modelled  *)
(* by its contract: it returns some assignment that satisfies every        *)
(* constraint of the model it is given and maximises the objective, any    *)
(* one of them, or finds none.  Assignments are drawn from the whole-unit  *)
(* grid.                                                                   *)
(***************************************************************************)
EXTENDS Integers, Sequences, FiniteSets

\* ------------------------------------------------------------------ bounds

\* Settlement periods per day: 48 in the source, scaled down.
PeriodsPerDay == 4

\* Denominator of the efficiencies: an efficiency is k / EffDen.
EffDen == 2

\* The sidebar's default day index.
DefaultDay == 38

\* -------------------------------------------------------------- constants

\* What a solution field of the model holds while the object has no such
\* attribute.
NoList == <<>>

NoValue == 0

\* ------------------------------------------------------------------ state

VARIABLES
    data_df, day, power, capacity, charging_efficiency, discharging_efficiency,
    daily_cycles, initial_soc,
    da_prices, id_prices, time_periods,
    v_da_sol, flow_in_da_sol, flow_out_da_sol, soc_da_sol, da_obj_val,
    v_id_sol, flow_in_id_sol, flow_out_id_sol, soc_total_sol, id_obj_val,
    attrs, call, uploaded_file, dataset_csv, pc

params == <<data_df, day, power, capacity, charging_efficiency,
            discharging_efficiency, daily_cycles, initial_soc>>

prices == <<da_prices, id_prices, time_periods>>

da_sol == <<v_da_sol, flow_in_da_sol, flow_out_da_sol, soc_da_sol, da_obj_val>>

id_sol == <<v_id_sol, flow_in_id_sol, flow_out_id_sol, soc_total_sol, id_obj_val>>

files == <<uploaded_file, dataset_csv>>

vars == <<params, prices, da_sol, id_sol, attrs, call, files, pc>>

\* ---------------------------------------------------------------- helpers

RECURSIVE Sum(_)
Sum(s) == IF s = <<>> THEN 0 ELSE Head(s) + Sum(Tail(s))

Max(S) == CHOOSE m \in S : \A y \in S : y <= m

Min2(a, b) == IF a <= b THEN a ELSE b

\* values[start:end] of a sequence, with Python's clipping of both ends.
Slice(s, start, end) ==
    LET lo == Min2(start, Len(s))
        hi == Min2(end, Len(s))
    IN  IF hi <= lo THEN <<>> ELSE SubSeq(s, lo + 1, hi)

\* ---------------------------------------------------------------- datasets

\* A dataset is a sequence of rows [da, id].
FlatData(rows) == [i \in 1..rows |-> [da |-> 500, id |-> 450]]

RisingData(rows) == [i \in 1..rows |-> [da |-> 500 + (i - 1), id |-> 450 + (i - 1)]]

StepData(rows) ==
    [i \in 1..rows |->
        [da |-> IF 2 * ((i - 1) % PeriodsPerDay) < PeriodsPerDay THEN 200 ELSE 800,
         id |-> 500]]

\* Two days of rising prices, and a dataset that ends before the first day
\* does.
RisingDataSets == {RisingData(2 * PeriodsPerDay), RisingData(PeriodsPerDay - 1)}

\* One day of flat prices, and one day of low-then-high day-ahead prices.
OneDayDataSets == {FlatData(PeriodsPerDay), StepData(PeriodsPerDay)}

DataSets == RisingDataSets \cup OneDayDataSets

Days == {0, 1, DefaultDay}

\* BatteryOptimizer.__init__, the price slices of the selected day.
DaySlice(data, d, column) ==
    LET start_idx == d * PeriodsPerDay
        end_idx == (d + 1) * PeriodsPerDay
        rows == Slice(data, start_idx, end_idx)
    IN  [i \in 1..Len(rows) |-> IF column = "day-ahead" THEN rows[i].da ELSE rows[i].id]

\* ------------------------------------------------------- battery parameters

\* An even power limit, and charging no more efficient than discharging: with
\* these the optimum of either LP is attained on the whole-unit grid.
BatteryParams ==
    {p \in [power : {2}, capacity : {4}, ce : {1, EffDen}, de : {1, EffDen},
            cycles : {1, 2}, soc0 : {0, 2}] : p.ce <= p.de}

\* The sidebar defaults scaled down: lossy charging, lossless discharging, two
\* cycles a day, a battery that starts partly charged.
DefaultParams ==
    [power |-> 2, capacity |-> 4, ce |-> 1, de |-> EffDen, cycles |-> 2, soc0 |-> 2]

\* The defaults with each efficiency either lossy or lossless.
EfficiencyParams ==
    {p \in BatteryParams : p.cycles = 2 /\ p.soc0 = 2}

\* Parameters outside their documented domain, which the constructor accepts
\* all the same (it copies its arguments).
OutOfDomainParams ==
    {[DefaultParams EXCEPT !.power = -1],
     [DefaultParams EXCEPT !.capacity = -1],
     [DefaultParams EXCEPT !.ce = 0],
     [DefaultParams EXCEPT !.soc0 = 5]}

N == Len(time_periods)

\* ----------------------------------------------------------- the two LPs

\* An assignment is [fi, fo, v, soc], each a sequence over the time set.  The
\* flow variables range over the non-negative grid points up to one unit past
\* the power limit; the limit itself is a constraint of the model.
FlowGrid == 0..((IF power > 0 THEN power ELSE 0) + 1)

\* within=pyo.NonNegativeReals of soc / soc_total.
soc_domain(s) == s >= 0

\* A model without the capacity bound.
soc_bound_dropped(s) == TRUE

\* soc_bound_da / soc_bound_total.
soc_bound(s) == s <= capacity * EffDen

\* soc_rule_da / soc_rule_total at t = 0.
soc_first == initial_soc * EffDen

\* soc_rule_da / soc_rule_total at t > 0: the state of charge of period t from
\* that of period t-1 and the physical flows of period t-1.
soc_rule(soc_prev, flow_out_prev, flow_in_prev) ==
    soc_prev - flow_out_prev * discharging_efficiency
             + flow_in_prev * charging_efficiency

\* energy_rule_da / energy_rule_id.
energy_rule(flow_out, flow_in) == flow_out - flow_in

\* A model without the terminal constraint.
final_soc_dropped(soc) == TRUE

\* final_soc_da / final_soc_total, with last = max(model.time).
final_soc(soc) == soc[N] = initial_soc * EffDen

\* up_bound_eqn_da, low_bound_eqn_da.
power_bound_da(flow_out, flow_in) == flow_out <= power /\ flow_in <= power

\* cycling_limit_da.
cycling_limit_da(fo) == Sum(fo) <= daily_cycles * capacity

\* hourly_consistency for the hour (t1, t2) = (2h, 2h+1).
hourly_consistency(v_t1, v_t2) == v_t1 = v_t2

\* The hours range(len(da_prices) // 2) pair every odd period t2 < N with its
\* predecessor: index k = t2 + 1 is even.
IsSecondHalfHour(k) == k % 2 = 0 /\ (k \div 2) - 1 < N \div 2

Objective(x, price) == Sum([i \in 1..N |-> x.v[i] * price[i]])

\* The assignments of periods 0..k-1 (and the state of charge up to period
\* min(k, N-1)) that satisfy every day-ahead constraint over those periods.
\* The flows are non-negative, so a cycling limit exceeded by the first k
\* periods stays exceeded.
RECURSIVE DayAheadPartial(_)
DayAheadPartial(k) ==
    IF k = 0
    THEN {p \in {[fi |-> <<>>, fo |-> <<>>, v |-> <<>>, soc |-> <<soc_first>>]} :
            soc_domain(p.soc[1]) /\ soc_bound(p.soc[1])}
    ELSE LET ext == {e \in DayAheadPartial(k - 1) \X FlowGrid \X FlowGrid :
                        LET p == e[1]
                            a == e[2]
                            b == e[3]
                            s == soc_rule(p.soc[k], b, a)
                        IN  /\ power_bound_da(b, a)
                            /\ cycling_limit_da(Append(p.fo, b))
                            /\ IsSecondHalfHour(k) =>
                                   hourly_consistency(p.v[k - 1], energy_rule(b, a))
                            /\ k < N => soc_domain(s) /\ soc_bound(s)}
         IN  {[fi |-> Append(e[1].fi, e[2]),
               fo |-> Append(e[1].fo, e[3]),
               v |-> Append(e[1].v, energy_rule(e[3], e[2])),
               soc |-> IF k < N
                       THEN Append(e[1].soc, soc_rule(e[1].soc[k], e[3], e[2]))
                       ELSE e[1].soc] : e \in ext}

DayAheadFeasible == {x \in DayAheadPartial(N) : final_soc(x.soc)}

Optimal(F, price) ==
    IF F = {} THEN {}
    ELSE LET best == Max({Objective(x, price) : x \in F})
         IN  {x \in F : Objective(x, price) = best}

\* Combined power limits that leave no room at the limit itself.
power_bound_total_strict(i, flow_out_id, flow_in_id) ==
    /\ flow_out_da_sol[i] + flow_out_id < power
    /\ flow_in_da_sol[i] + flow_in_id < power

\* upper_bound_total, lower_bound_total of period t (index i).
power_bound_total(i, flow_out_id, flow_in_id) ==
    /\ flow_out_da_sol[i] + flow_out_id <= power
    /\ flow_in_da_sol[i] + flow_in_id <= power

\* cycling_limit_total.
cycling_limit_total(fo) ==
    Sum([i \in 1..Len(fo) |-> flow_out_da_sol[i] + fo[i]]) <= daily_cycles * capacity

RECURSIVE IntraDayPartial(_)
IntraDayPartial(k) ==
    IF k = 0
    THEN {p \in {[fi |-> <<>>, fo |-> <<>>, v |-> <<>>, soc |-> <<soc_first>>]} :
            soc_domain(p.soc[1]) /\ soc_bound(p.soc[1])}
    ELSE LET ext == {e \in IntraDayPartial(k - 1) \X FlowGrid \X FlowGrid :
                        LET p == e[1]
                            a == e[2]
                            b == e[3]
                            s == soc_rule(p.soc[k], flow_out_da_sol[k] + b,
                                          flow_in_da_sol[k] + a)
                        IN  /\ power_bound_total(k, b, a)
                            /\ cycling_limit_total(Append(p.fo, b))
                            /\ k < N => soc_domain(s) /\ soc_bound(s)}
         IN  {[fi |-> Append(e[1].fi, e[2]),
               fo |-> Append(e[1].fo, e[3]),
               v |-> Append(e[1].v, energy_rule(e[3], e[2])),
               soc |-> IF k < N
                       THEN Append(e[1].soc,
                                   soc_rule(e[1].soc[k], flow_out_da_sol[k] + e[3],
                                            flow_in_da_sol[k] + e[2]))
                       ELSE e[1].soc] : e \in ext}

IntraDayFeasible == {x \in IntraDayPartial(N) : final_soc(x.soc)}

\* ------------------------------------------------------------ the methods

\* The last call on the optimizer: the method, how it ended ("ok" or the
\* error raised), whether it created model components, whether it called the
\* solver, and the ledger it returned (get_results only).
Returned(op, outcome, built, solved, results_df) ==
    [op |-> op, outcome |-> outcome, built |-> built, solved |-> solved,
     results_df |-> results_df]

Call(op, outcome, built, solved) == Returned(op, outcome, built, solved, <<>>)

\* A precondition check that lets every call through.
NoSequencingCheck == TRUE

\* hasattr(self, 'v_da_sol')
HasDayAhead == "v_da_sol" \in attrs

DayAheadAttrs ==
    {"v_da_sol", "flow_in_da_sol", "flow_out_da_sol", "soc_da_sol", "da_obj_val"}

IntraDayAttrs ==
    {"v_id_sol", "flow_in_id_sol", "flow_out_id_sol", "soc_total_sol", "id_obj_val"}

\* The model cannot be built over an empty time set: the cycling limit has no
\* variable left and max(model.time) has no element.
Buildable == N > 0

ZeroAssignment ==
    [fi |-> [i \in 1..N |-> 0], fo |-> [i \in 1..N |-> 0], v |-> [i \in 1..N |-> 0],
     soc |-> [i \in 1..N |-> soc_first]]

\* A solver that hands back an all-zero schedule when the model is infeasible.
SolveOrZero(F, price) == IF F = {} THEN {ZeroAssignment} ELSE Optimal(F, price)

\* solver.solve(model): the assignments the engine may load into the model's
\* variables, none when the model is infeasible (solve, or the first
\* pyo.value read of a variable without a value, then raises).
Solve(F, price) == Optimal(F, price)

optimize_day_ahead ==
    /\ LET loaded == Solve(DayAheadFeasible, da_prices)
       IN  \/ /\ ~Buildable
              /\ call' = Call("optimize_day_ahead", "ModelError", TRUE, FALSE)
              /\ UNCHANGED <<da_sol, attrs>>
           \/ /\ Buildable
              /\ loaded = {}
              /\ call' = Call("optimize_day_ahead", "SolverError", TRUE, TRUE)
              /\ UNCHANGED <<da_sol, attrs>>
           \/ /\ Buildable
              /\ \E x \in loaded :
                    /\ v_da_sol' = x.v
                    /\ flow_in_da_sol' = x.fi
                    /\ flow_out_da_sol' = x.fo
                    /\ soc_da_sol' = x.soc
                    /\ da_obj_val' = Objective(x, da_prices)
              /\ attrs' = attrs \cup DayAheadAttrs
              /\ call' = Call("optimize_day_ahead", "ok", TRUE, TRUE)
    /\ UNCHANGED <<params, prices, id_sol, files>>

optimize_intra_day ==
    /\ \/ /\ ~HasDayAhead
          /\ call' = Call("optimize_intra_day", "SequencingError", FALSE, FALSE)
          /\ UNCHANGED <<id_sol, attrs>>
       \/ /\ HasDayAhead
          /\ ~({"flow_in_da_sol", "flow_out_da_sol"} \subseteq attrs)
          /\ call' = Call("optimize_intra_day", "AttributeError", TRUE, FALSE)
          /\ UNCHANGED <<id_sol, attrs>>
       \/ /\ HasDayAhead
          /\ {"flow_in_da_sol", "flow_out_da_sol"} \subseteq attrs
          /\ LET loaded == Solve(IntraDayFeasible, id_prices)
             IN  \/ /\ loaded = {}
                    /\ call' = Call("optimize_intra_day", "SolverError", TRUE, TRUE)
                    /\ UNCHANGED <<id_sol, attrs>>
                 \/ /\ \E x \in loaded :
                          /\ v_id_sol' = x.v
                          /\ flow_in_id_sol' = x.fi
                          /\ flow_out_id_sol' = x.fo
                          /\ soc_total_sol' = x.soc
                          /\ id_obj_val' = Objective(x, id_prices)
                    /\ attrs' = attrs \cup IntraDayAttrs
                    /\ call' = Call("optimize_intra_day", "ok", TRUE, TRUE)
    /\ UNCHANGED <<params, prices, da_sol, files>>

Ledger ==
    [i \in 1..N |->
        [period |-> time_periods[i],
         v_da |-> v_da_sol[i],
         v_id |-> v_id_sol[i],
         da_price |-> da_prices[i],
         id_price |-> id_prices[i],
         da_cashflow |-> v_da_sol[i] * da_prices[i],
         id_cashflow |-> v_id_sol[i] * id_prices[i],
         total_cashflow |-> v_da_sol[i] * da_prices[i] + v_id_sol[i] * id_prices[i],
         soc_da |-> soc_da_sol[i],
         soc_total |-> soc_total_sol[i]]]

get_results ==
    /\ \/ /\ ~({"v_da_sol", "v_id_sol"} \subseteq attrs)
          /\ call' = Call("get_results", "AttributeError", FALSE, FALSE)
       \/ /\ {"v_da_sol", "v_id_sol"} \subseteq attrs
          /\ call' = Returned("get_results", "ok", FALSE, FALSE, Ledger)
    /\ UNCHANGED <<params, prices, da_sol, id_sol, attrs, files>>

\* ------------------------------------------- one optimizer, any call order

NoCall == Call("none", "none", FALSE, FALSE)

NoFile == [present |-> FALSE, rows |-> <<>>]

File(data) == [present |-> TRUE, rows |-> data]

\* BatteryOptimizer.__init__, the parameters: copied as given.
Constructed(p) ==
    /\ power = p.power
    /\ capacity = p.capacity
    /\ charging_efficiency = p.ce
    /\ discharging_efficiency = p.de
    /\ daily_cycles = p.cycles
    /\ initial_soc = p.soc0

time_periods_of(price) == [i \in 1..Len(price) |-> i - 1]

NothingSolved ==
    /\ attrs = {}
    /\ v_da_sol = NoList /\ flow_in_da_sol = NoList /\ flow_out_da_sol = NoList
    /\ soc_da_sol = NoList /\ da_obj_val = NoValue
    /\ v_id_sol = NoList /\ flow_in_id_sol = NoList /\ flow_out_id_sol = NoList
    /\ soc_total_sol = NoList /\ id_obj_val = NoValue

\* A BatteryOptimizer as its constructor leaves it.
Init ==
    /\ \/ /\ \E p \in BatteryParams : Constructed(p)
          /\ data_df \in RisingDataSets
       \/ /\ \E p \in EfficiencyParams \cup OutOfDomainParams : Constructed(p)
          /\ data_df \in DataSets
    /\ day \in Days
    /\ da_prices = DaySlice(data_df, day, "day-ahead")
    /\ id_prices = DaySlice(data_df, day, "intra-day")
    /\ time_periods = time_periods_of(da_prices)
    /\ NothingSolved
    /\ call = NoCall
    /\ uploaded_file = NoFile
    /\ dataset_csv = NoFile
    /\ pc = "object"

CallDayAhead == optimize_day_ahead /\ UNCHANGED pc

CallIntraDay == optimize_intra_day /\ UNCHANGED pc

CallGetResults == get_results /\ UNCHANGED pc

Next ==
    \/ CallDayAhead
    \/ CallIntraDay
    \/ CallGetResults

Spec == Init /\ [][Next]_vars

\* ------------------------------------------------------------------ main()

\* What the sidebar widgets can return: number_input has min_value 0, the
\* efficiency sliders range over [0, 1].
SidebarParams ==
    BatteryParams
    \cup {[DefaultParams EXCEPT !.ce = 0],
          [DefaultParams EXCEPT !.power = 0],
          [DefaultParams EXCEPT !.soc0 = 5]}

InitMain ==
    /\ \E p \in SidebarParams : Constructed(p)
    /\ day \in Days
    /\ \/ uploaded_file \in {File(d) : d \in DataSets} /\ dataset_csv = NoFile
       \/ uploaded_file = NoFile
          /\ dataset_csv \in {NoFile, File(RisingData(2 * PeriodsPerDay))}
    /\ data_df = <<>>
    /\ da_prices = <<>>
    /\ id_prices = <<>>
    /\ time_periods = <<>>
    /\ NothingSolved
    /\ call = NoCall
    /\ pc = "start"

\* Lines 228-236: the uploaded file, else dataset.csv, else st.error and return.
MainReadDataset ==
    /\ pc = "start"
    /\ \/ /\ uploaded_file.present
          /\ data_df' = uploaded_file.rows
          /\ pc' = "dataset"
       \/ /\ ~uploaded_file.present
          /\ dataset_csv.present
          /\ data_df' = dataset_csv.rows
          /\ pc' = "dataset"
       \/ /\ ~uploaded_file.present
          /\ ~dataset_csv.present
          /\ pc' = "no dataset"
          /\ UNCHANGED data_df
    /\ UNCHANGED <<day, power, capacity, charging_efficiency, discharging_efficiency,
                   daily_cycles, initial_soc, prices, da_sol, id_sol, attrs, call,
                   files>>

\* Lines 239-248: BatteryOptimizer(...), which slices the prices of the day.
MainConstruct ==
    /\ pc = "dataset"
    /\ da_prices' = DaySlice(data_df, day, "day-ahead")
    /\ id_prices' = DaySlice(data_df, day, "intra-day")
    /\ time_periods' = time_periods_of(DaySlice(data_df, day, "day-ahead"))
    /\ pc' = "constructed"
    /\ UNCHANGED <<params, da_sol, id_sol, attrs, call, files>>

Continue(then) == IF call'.outcome = "ok" THEN then ELSE "raised"

\* Line 251.
MainDayAhead ==
    /\ pc = "constructed"
    /\ optimize_day_ahead
    /\ pc' = Continue("day-ahead complete")

\* Line 256.
MainIntraDay ==
    /\ pc = "day-ahead complete"
    /\ optimize_intra_day
    /\ pc' = Continue("intra-day complete")

\* Lines 261-299: get_results, then the table and the two charts.
MainGetResults ==
    /\ pc = "intra-day complete"
    /\ get_results
    /\ pc' = Continue("done")

NextMain ==
    \/ MainReadDataset
    \/ MainConstruct
    \/ MainDayAhead
    \/ MainIntraDay
    \/ MainGetResults

SpecMain == InitMain /\ [][NextMain]_vars

\* ------------------------------------------------------------ properties

StoredDayAhead == DayAheadAttrs \subseteq attrs

StoredIntraDay == IntraDayAttrs \subseteq attrs

\* C1: optimize_intra_day on an optimizer without a day-ahead solution raises
\* before any model is built or solved and sets no intra-day field; so an
\* intra-day solution is stored only if a day-ahead solution is stored.
C1_IntraDayNeedsDayAhead ==
    /\ (call.op = "optimize_intra_day" /\ "v_da_sol" \notin attrs) =>
          /\ call.outcome = "SequencingError"
          /\ ~call.built
          /\ ~call.solved
          /\ IntraDayAttrs \cap attrs = {}
    /\ IntraDayAttrs \cap attrs # {} => StoredDayAhead

C1_Witness ==
    /\ call.op = "optimize_intra_day"
    /\ call.outcome = "SequencingError"
    /\ attrs = {}
    /\ N > 0

\* C2: after every successful solve the last entry of the stored state of
\* charge trajectory equals initial_soc, for the day-ahead trajectory and for
\* the combined one.
C2_TerminalSoc ==
    /\ "soc_da_sol" \in attrs => soc_da_sol[N] = initial_soc * EffDen
    /\ "soc_total_sol" \in attrs => soc_total_sol[N] = initial_soc * EffDen

C2_Witness ==
    /\ StoredDayAhead
    /\ StoredIntraDay
    /\ \E i \in 1..N : soc_da_sol[i] # initial_soc * EffDen
    /\ \E i \in 1..N : soc_total_sol[i] # soc_da_sol[i]

\* C3: with flat positive prices in both markets and a lossy round trip
\* (charging efficiency below 1, discharging efficiency 1), every stored
\* day-ahead and intra-day solution trades zero volume in every period and
\* both objective values are 0.
FlatPositive(price) == \A i \in 1..N : price[i] = price[1] /\ price[i] > 0

C3_FlatPricesNoTrade ==
    (/\ N > 0
     /\ FlatPositive(da_prices)
     /\ FlatPositive(id_prices)
     /\ charging_efficiency \in 1..(EffDen - 1)
     /\ discharging_efficiency = EffDen) =>
        /\ StoredDayAhead =>
              (\A i \in 1..N : v_da_sol[i] = 0) /\ da_obj_val = 0
        /\ StoredIntraDay =>
              (\A i \in 1..N : v_id_sol[i] = 0) /\ id_obj_val = 0

\* C4: the flows of the last period are accounted for like those of every
\* other period: the stored energy after period N-1's flows equals
\* initial_soc, in the day-ahead solution and, for the combined flows, in the
\* intra-day solution computed from it.
C4_LastPeriodAccounted ==
    /\ StoredDayAhead =>
          soc_rule(soc_da_sol[N], flow_out_da_sol[N], flow_in_da_sol[N])
              = initial_soc * EffDen
    /\ (StoredIntraDay /\ call.op = "optimize_intra_day") =>
          soc_rule(soc_total_sol[N], flow_out_da_sol[N] + flow_out_id_sol[N],
                   flow_in_da_sol[N] + flow_in_id_sol[N])
              = initial_soc * EffDen

\* C5: every entry of both stored state of charge trajectories lies in
\* [0, capacity].
C5_SocWithinCapacity ==
    /\ "soc_da_sol" \in attrs =>
          \A i \in 1..N : 0 <= soc_da_sol[i] /\ soc_da_sol[i] <= capacity * EffDen
    /\ "soc_total_sol" \in attrs =>
          \A i \in 1..N : 0 <= soc_total_sol[i] /\ soc_total_sol[i] <= capacity * EffDen

\* Both stored trajectories start inside the range and touch the capacity.
C5_Witness ==
    /\ StoredDayAhead
    /\ StoredIntraDay
    /\ initial_soc < capacity
    /\ \E i \in 1..N : soc_da_sol[i] = capacity * EffDen
    /\ \E i \in 1..N : soc_total_sol[i] = capacity * EffDen /\ soc_da_sol[i] < soc_total_sol[i]

\* C6: a stage whose constraint set is infeasible ends in an error and
\* stores no schedule: no solution field of that stage is set, and the
\* outcome is never a successful (zero-revenue) result.
C6_InfeasibleStoresNothing ==
    /\ (N > 0 /\ DayAheadFeasible = {}) =>
          /\ DayAheadAttrs \cap attrs = {}
          /\ call.op = "optimize_day_ahead" => call.outcome = "SolverError"
    /\ (call.op = "optimize_intra_day" /\ StoredDayAhead /\ IntraDayFeasible = {}) =>
          /\ call.outcome = "SolverError"
          /\ IntraDayAttrs \cap attrs = {}

C6_Witness ==
    /\ N > 0
    /\ initial_soc > capacity
    /\ capacity >= 0
    /\ power >= 0
    /\ call.op = "optimize_day_ahead"
    /\ call.outcome = "SolverError"
    /\ attrs = {}

\* C7: malformed input (a price series shorter than the time grid, negative
\* power or capacity, an efficiency outside (0, 1]) is rejected before any
\* model component is created and never reaches the solver.
WellFormedInput ==
    /\ N = PeriodsPerDay
    /\ Len(id_prices) = PeriodsPerDay
    /\ power >= 0
    /\ capacity >= 0
    /\ charging_efficiency \in 1..EffDen
    /\ discharging_efficiency \in 1..EffDen

C7_MalformedRejected ==
    (call.op = "optimize_day_ahead" /\ ~WellFormedInput) =>
        ~call.built /\ ~call.solved

\* C8: main() with the sidebar defaults on an uploaded dataset of one day of
\* flat prices never raises: both stages and get_results complete.
SidebarDefaults ==
    /\ day = DefaultDay
    /\ Constructed(DefaultParams)
    /\ uploaded_file = File(FlatData(PeriodsPerDay))

C8_DefaultRunCompletes == SidebarDefaults => pc # "raised"

\* C9: whenever a day-ahead and an intra-day solution are both stored, the
\* stored flows respect the combined power bounds in every period.
C9_CombinedPowerBounds ==
    (StoredDayAhead /\ StoredIntraDay) =>
        \A i \in 1..N :
            /\ flow_out_da_sol[i] + flow_out_id_sol[i] <= power
            /\ flow_in_da_sol[i] + flow_in_id_sol[i] <= power

\* C10: in every period of every stored solution the energy sold from
\* discharging is no more than the energy the recursion removes from storage,
\* and the energy charging adds to storage is no more than the energy bought;
\* hence the day's total export is no more than its total import.
Removed(flow_out) == soc_rule(0, 0, 0) - soc_rule(0, flow_out, 0)

Added(flow_in) == soc_rule(0, 0, flow_in) - soc_rule(0, 0, 0)

C10_LossOnBothPaths ==
    (StoredDayAhead /\ charging_efficiency \in 1..EffDen
                    /\ discharging_efficiency \in 1..EffDen) =>
        /\ \A i \in 1..N :
              /\ flow_out_da_sol[i] * EffDen <= Removed(flow_out_da_sol[i])
              /\ Added(flow_in_da_sol[i]) <= flow_in_da_sol[i] * EffDen
        /\ Sum(flow_out_da_sol) <= Sum(flow_in_da_sol)

\* C11: after a successful optimize_day_ahead the intra-day model is feasible:
\* zero incremental flows with the stored day-ahead state of charge satisfy
\* every intra-day constraint, so optimize_intra_day never ends infeasible and
\* the stored intra-day objective is never negative.
ZeroIncrement ==
    [fi |-> [i \in 1..N |-> 0], fo |-> [i \in 1..N |-> 0], v |-> [i \in 1..N |-> 0],
     soc |-> soc_da_sol]

C11_IntraDayFeasibleAfterDayAhead ==
    /\ StoredDayAhead => ZeroIncrement \in IntraDayFeasible
    /\ (call.op = "optimize_intra_day" /\ StoredDayAhead) => call.outcome = "ok"
    /\ StoredIntraDay => id_obj_val >= 0

\* An intra-day solve on top of a day-ahead schedule that discharges at the
\* power limit.
C11_Witness ==
    /\ call.op = "optimize_intra_day"
    /\ call.outcome = "ok"
    /\ StoredDayAhead
    /\ StoredIntraDay
    /\ power > 0
    /\ \E i \in 1..N : flow_out_da_sol[i] = power
    /\ \E i \in 1..N : flow_in_da_sol[i] > 0

====
